---- MODULE Spec2Model ----
(***************************************************************************)
(* Model of the object-oriented request builder `oof` (src/src/oof.ts).    *)
(*                                                                         *)
(* State: the static base URL, the builder instances (private fields),     *)
(* the heap of header arrays the builders refer to, the terminal calls in  *)
(* flight (one record per run()/runJSON() invocation, with the values the  *)
(* call has already read) and the log of transport invocations.            *)
(*                                                                         *)
(* JavaScript values are modelled as follows: strings that are inspected   *)
(* character by character (paths, URLs) are sequences of one-character     *)
(* strings; objects are functions from a finite set of keys; booleans and  *)
(* numbers that end up as object values are written as strings.            *)
(***************************************************************************)
EXTENDS Naturals, Sequences, FiniteSets, TLC

VARIABLES baseUrl, builders, arrays, userArrays, calls, fetchLog

vars == <<baseUrl, builders, arrays, userArrays, calls, fetchLog>>

(***************************************************************************)
(* Bounds of the model.                                                    *)
(***************************************************************************)
MaxCalls == 2
MaxLifeHeaders == 1
MaxHeaders == 2
MaxRuns == 1

(***************************************************************************)
(* Objects and the spread operator.                                        *)
(***************************************************************************)
EmptyObj == <<>>

Undefined == "undefined"

NoError == "none"

\* { ...obj, ...item }: shallow merge, the keys of item win.
Spread(obj, item) ==
  [k \in (DOMAIN obj) \cup (DOMAIN item) |->
     IF k \in DOMAIN item THEN item[k] ELSE obj[k]]

(***************************************************************************)
(* URL resolution.                                                         *)
(***************************************************************************)
Http == <<"h", "t", "t", "p", ":", "/", "/">>

Https == <<"h", "t", "t", "p", "s", ":", "/", "/">>

\* The effect of the regex flag i on one character.
ToLower(ch) ==
  CASE ch = "H" -> "h"
    [] ch = "T" -> "t"
    [] ch = "P" -> "p"
    [] ch = "S" -> "s"
    [] ch = "A" -> "a"
    [] OTHER -> ch

LowerCase(s) == [i \in 1..Len(s) |-> ToLower(s[i])]

\* pat occurs in s starting at position i.
OccursAt(s, pat, i) ==
  /\ i + Len(pat) - 1 <= Len(s)
  /\ \A j \in 1..Len(pat) : s[i + j - 1] = pat[j]

\* The match without the flag i.
MatchesProtocolCaseSensitive(path) ==
  \E i \in 1..Len(path) :
    \/ OccursAt(path, Https, i)
    \/ OccursAt(path, Http, i)

\* path.match(/https:\/\/|http:\/\//i): unanchored, case-insensitive.
MatchesProtocol(path) ==
  \E i \in 1..Len(path) :
    \/ OccursAt(LowerCase(path), Https, i)
    \/ OccursAt(LowerCase(path), Http, i)

\* The base URL and the path joined with a separator.
ResolveUrlJoined(path, base) ==
  IF MatchesProtocol(path) THEN path ELSE base \o <<"/">> \o path

\* The first argument of _fetch.
ResolveUrl(path, base) ==
  IF MatchesProtocol(path) THEN path ELSE base \o path

(***************************************************************************)
(* Header sources: a plain object, a function returning an object (or      *)
(* throwing), a function returning a promise of an object (or rejecting).  *)
(***************************************************************************)
Obj(m) == [kind |-> "object", ret |-> m, err |-> NoError]

Fn(m) == [kind |-> "function", ret |-> m, err |-> NoError]

FnThrows(e) == [kind |-> "function", ret |-> EmptyObj, err |-> e]

AsyncFn(m) == [kind |-> "async", ret |-> m, err |-> NoError]

AsyncFnRejects(e) == [kind |-> "async", ret |-> EmptyObj, err |-> e]

\* The default header of the factories for methods with a JSON body.
ContentTypeJson == Obj(("Content-Type" :> "application/json"))

\* .reduce((obj, item) => ({ ...obj, ...item }), {}) over resolved objects.
RECURSIVE Reduce(_, _)
Reduce(items, obj) ==
  IF items = <<>> THEN obj
  ELSE Reduce(Tail(items), Spread(obj, Head(items)))

\* The reduce with the spread operands swapped: the first source to supply
\* a key wins.
RECURSIVE ReduceFirstWins(_, _)
ReduceFirstWins(items, obj) ==
  IF items = <<>> THEN obj
  ELSE ReduceFirstWins(Tail(items), Spread(Head(items), obj))

MergeHeadersFirstWins(items) == ReduceFirstWins(items, EmptyObj)

MergeHeaders(items) == Reduce(items, EmptyObj)

(***************************************************************************)
(* Inputs: paths, base URLs, and what the transport answers.               *)
(***************************************************************************)
PathRel == <<"/", "a">>

PathAbs == Http \o <<"a">>

BaseLocal == Http \o <<"b">>

\* What the transport answers: ok, status, and the outcome of json().
Response(ok, status, body, parseErr) ==
  [ok |-> ok, status |-> status, body |-> body, parseErr |-> parseErr]

NoResponse == Response("", "", EmptyObj, NoError)

TransportErrors == {"NetworkError"}

(***************************************************************************)
(* Initial state: no builder exists, the base URL is the empty string.     *)
(***************************************************************************)
Init ==
  /\ baseUrl = <<>>
  /\ builders = <<>>
  /\ arrays = <<>>
  /\ userArrays = {}
  /\ calls = <<>>
  /\ fetchLog = <<>>

Builders == 1..Len(builders)

Calls == 1..Len(calls)

\* The header sources a builder currently holds.
HeadersOf(b) == arrays[builders[b].headers]

(***************************************************************************)
(* Construction.                                                           *)
(***************************************************************************)
\* The field assignments of the constructor; ref is the array kept in
\* this.#headers.
NewOof(method, path, opts, ref) ==
  /\ builders' = Append(builders,
       [method |-> method, path |-> path, opts |-> opts,
        headers |-> ref, data |-> Undefined])
  /\ UNCHANGED <<baseUrl, calls, fetchLog>>

\* new oof({method, path}): opts = {}, headers = [] (a fresh array).
ConstructDefault(method, path) ==
  /\ arrays' = Append(arrays, <<>>)
  /\ NewOof(method, path, EmptyObj, Len(arrays) + 1)
  /\ UNCHANGED userArrays

\* new oof({method, path, headers: h}) with h not an array: wrapped in [h].
ConstructSingle(method, path, h) ==
  /\ arrays' = Append(arrays, <<h>>)
  /\ NewOof(method, path, EmptyObj, Len(arrays) + 1)
  /\ UNCHANGED userArrays

\* The caller creates an array of header sources and keeps a reference to
\* it (userArrays), to pass it to the constructor.
NewArray(hs) ==
  /\ arrays' = Append(arrays, hs)
  /\ userArrays' = userArrays \cup {Len(arrays) + 1}
  /\ UNCHANGED <<baseUrl, builders, calls, fetchLog>>

\* new oof({method, path, opts, headers: a}) with a an array: Array.isArray
\* holds and the array itself, not a copy, becomes this.#headers.
ConstructWithArray(method, path, opts, a) ==
  /\ a \in userArrays
  /\ NewOof(method, path, opts, a)
  /\ UNCHANGED <<arrays, userArrays>>

_METHODS_WO_DATA(method, path) == ConstructDefault(method, path)

\* The factory for methods with a body without its default header.
WithDataNoDefault(method, path) == ConstructDefault(method, path)

_METHODS_WITH_DATA(method, path) == ConstructSingle(method, path, ContentTypeJson)

GET(path) == ConstructDefault("GET", path)

POST(path) == _METHODS_WITH_DATA("POST", path)

PUT(path) == _METHODS_WITH_DATA("PUT", path)

DEL(path) == ConstructDefault("DELETE", path)

(***************************************************************************)
(* Chainable mutators and the base URL.                                    *)
(***************************************************************************)
\* this.#opts = { ...this.#opts, ...opts }: the argument merged into the
\* options already set.
optionsMerged(b, opts) ==
  /\ builders' = [builders EXCEPT ![b].opts = Spread(@, opts)]
  /\ UNCHANGED <<baseUrl, arrays, userArrays, calls, fetchLog>>

options(b, opts) ==
  /\ builders' = [builders EXCEPT ![b].opts = opts]
  /\ UNCHANGED <<baseUrl, arrays, userArrays, calls, fetchLog>>

\* this.#headers.push(header): in place, on the array the builder refers to.
header(b, h) ==
  /\ arrays' = [arrays EXCEPT ![builders[b].headers] = Append(@, h)]
  /\ UNCHANGED <<baseUrl, builders, userArrays, calls, fetchLog>>

\* A data() that also turns the request into a POST.
dataSwitchesMethod(b, d) ==
  /\ builders' = [builders EXCEPT ![b].data = d, ![b].method = "POST"]
  /\ UNCHANGED <<baseUrl, arrays, userArrays, calls, fetchLog>>

data(b, d) ==
  /\ builders' = [builders EXCEPT ![b].data = d]
  /\ UNCHANGED <<baseUrl, arrays, userArrays, calls, fetchLog>>

\* oof._baseUrl = url, by the caller.
SetBaseUrl(url) ==
  /\ baseUrl' = url
  /\ UNCHANGED <<builders, arrays, userArrays, calls, fetchLog>>

(***************************************************************************)
(* Terminal calls.  A call record holds what one invocation of run() has   *)
(* read and computed so far:                                               *)
(*   b, json   the builder, and whether run() was entered through runJSON  *)
(*   pc        "headers" (suspended in await Promise.all), "fetch"         *)
(*             (transport invoked, response pending), "json" (body parse   *)
(*             pending), "done"                                            *)
(*   url, method   the arguments evaluated before the await                *)
(*   srcs      the header sources mapped over when run() was entered       *)
(*   slots     per source: "fulfilled", "pending", "rejected", "threw",    *)
(*             "skipped" (never reached by map), and the resolved object   *)
(*   order     the indices of the promises in the order they settled       *)
(*   opts      the value of this.#opts spread into the request             *)
(*   outcome, error, resp, result   how the returned promise settled       *)
(***************************************************************************)
Slot(st, val) == [st |-> st, val |-> val]

\* The indices of the sync functions that throw when invoked.
Throwing(srcs) ==
  {i \in 1..Len(srcs) : srcs[i].kind = "function" /\ srcs[i].err # NoError}

\* The element map() stops at: the first sync function that throws, 0 if none.
FirstThrow(srcs) ==
  IF Throwing(srcs) = {} THEN 0
  ELSE CHOOSE i \in Throwing(srcs) : \A j \in Throwing(srcs) : i <= j

\* The sources resolved one after the other: a source is invoked only once
\* every source before it has settled, so nothing after the first async
\* source has been invoked when run() suspends.
MapHeadersSerial(srcs) ==
  [i \in 1..Len(srcs) |->
     IF \E j \in 1..(i - 1) : srcs[j].kind = "async" \/ j = FirstThrow(srcs)
     THEN Slot("skipped", EmptyObj)
     ELSE IF i = FirstThrow(srcs) THEN Slot("threw", EmptyObj)
     ELSE IF srcs[i].kind = "async" THEN Slot("pending", EmptyObj)
     ELSE Slot("fulfilled", srcs[i].ret)]

\* headers.map((header) => typeof header === "function" ? header() : header):
\* the elements are visited in index order and every function is invoked on
\* the spot; a throw ends the map, the later elements are never visited.
MapHeaders(srcs) ==
  [i \in 1..Len(srcs) |->
     IF FirstThrow(srcs) # 0 /\ i > FirstThrow(srcs) THEN Slot("skipped", EmptyObj)
     ELSE IF i = FirstThrow(srcs) THEN Slot("threw", EmptyObj)
     ELSE IF srcs[i].kind = "async" THEN Slot("pending", EmptyObj)
     ELSE Slot("fulfilled", srcs[i].ret)]

\* The synchronous part of run(): everything before the await.
EnterRun(b, json) ==
  LET srcs == HeadersOf(b)
      threw == FirstThrow(srcs) # 0
  IN
  /\ calls' = Append(calls,
       [b |-> b, json |-> json,
        pc |-> IF threw THEN "done" ELSE "headers",
        url |-> ResolveUrl(builders[b].path, baseUrl),
        method |-> builders[b].method,
        srcs |-> srcs,
        slots |-> MapHeaders(srcs),
        order |-> <<>>,
        opts |-> EmptyObj,
        outcome |-> IF threw THEN "rejected" ELSE "pending",
        error |-> IF threw THEN srcs[FirstThrow(srcs)].err ELSE NoError,
        resp |-> NoResponse,
        result |-> EmptyObj])
  /\ UNCHANGED <<baseUrl, builders, arrays, userArrays, fetchLog>>

run(b) == EnterRun(b, FALSE)

runJSON(b) == EnterRun(b, TRUE)

\* The call rejects with an error of the builder's own in place of e.
RejectCallWrapped(call, e) ==
  [call EXCEPT !.pc = "done", !.outcome = "rejected", !.error = "OofError"]

\* How the promise a call returns settles when it fails with error e.
RejectCall(call, e) ==
  [call EXCEPT !.pc = "done", !.outcome = "rejected", !.error = e]

\* A rejection of a header source is caught and counts as an empty header
\* object.
SettleSwallowsRejection(c, i) ==
  LET call == calls[c]
      src == call.srcs[i]
  IN
  /\ call.slots[i].st = "pending"
  /\ calls' = [calls EXCEPT ![c].slots[i] = Slot("fulfilled", src.ret),
                            ![c].order = Append(@, i)]
  /\ UNCHANGED <<baseUrl, builders, arrays, userArrays, fetchLog>>

\* The promise returned by async header source i of call c settles.  The
\* first rejection rejects Promise.all, and with it the call; a settlement
\* after that is observed by nobody.
Settle(c, i) ==
  LET call == calls[c]
      src == call.srcs[i]
      settled == [call EXCEPT
                    !.slots[i] = IF src.err = NoError
                                 THEN Slot("fulfilled", src.ret)
                                 ELSE Slot("rejected", EmptyObj),
                    !.order = Append(@, i)]
  IN
  /\ call.slots[i].st = "pending"
  /\ calls' = [calls EXCEPT ![c] =
       IF src.err # NoError /\ call.pc = "headers"
       THEN RejectCall(settled, src.err)
       ELSE settled]
  /\ UNCHANGED <<baseUrl, builders, arrays, userArrays, fetchLog>>

AllFulfilled(call) ==
  \A i \in 1..Len(call.slots) : call.slots[i].st = "fulfilled"

Resolved(call) == [i \in 1..Len(call.slots) |-> call.slots[i].val]

\* { ...this.#opts, method, headers }: the computed values spread last.
RequestInitOptionsFirst(method, headers, opts) ==
  Spread(opts, [method |-> method, headers |-> headers])

\* The second argument of _fetch: { method, headers, ...this.#opts }.
RequestInit(method, headers, opts) ==
  Spread([method |-> method, headers |-> headers], opts)

\* One invocation of the transport, as the transport sees it: its arguments
\* and how the promise it returned has settled ("pending", "resolved", or
\* the error it rejected with).
Invocation(c, url, init, body) ==
  [call |-> c, url |-> url, options |-> init, body |-> body, reply |-> "pending"]

\* The log once the transport has answered the pending invocation of call c.
Replied(log, c, reply) ==
  [i \in 1..Len(log) |->
     IF log[i].call = c /\ log[i].reply = "pending"
     THEN [log[i] EXCEPT !.reply = reply]
     ELSE log[i]]

\* The payload is handed to the transport only for the methods that carry
\* an entity body.
DispatchBodyGated(c) ==
  LET call == calls[c]
      bld == builders[call.b]
  IN
  /\ call.pc = "headers"
  /\ AllFulfilled(call)
  /\ calls' = [calls EXCEPT ![c].pc = "fetch", ![c].opts = bld.opts]
  /\ fetchLog' = Append(fetchLog,
       Invocation(c, call.url,
                  RequestInit(call.method, MergeHeaders(Resolved(call)), bld.opts),
                  IF call.method \in {"POST", "PUT", "PATCH"}
                  THEN bld.data ELSE Undefined))
  /\ UNCHANGED <<baseUrl, builders, arrays, userArrays>>

\* run() goes on as soon as it is resumed, with the headers resolved so
\* far: the sources still pending contribute nothing.
DispatchEarly(c) ==
  LET call == calls[c]
      bld == builders[call.b]
  IN
  /\ call.pc = "headers"
  /\ calls' = [calls EXCEPT ![c].pc = "fetch", ![c].opts = bld.opts]
  /\ fetchLog' = Append(fetchLog,
       Invocation(c, call.url,
                  RequestInit(call.method, MergeHeaders(Resolved(call)), bld.opts),
                  bld.data))
  /\ UNCHANGED <<baseUrl, builders, arrays, userArrays>>

\* The URL is computed when run() resumes, from the base URL of that
\* moment.
DispatchLateUrl(c) ==
  LET call == calls[c]
      bld == builders[call.b]
  IN
  /\ call.pc = "headers"
  /\ AllFulfilled(call)
  /\ calls' = [calls EXCEPT ![c].pc = "fetch", ![c].opts = bld.opts]
  /\ fetchLog' = Append(fetchLog,
       Invocation(c, ResolveUrl(bld.path, baseUrl),
                  RequestInit(call.method, MergeHeaders(Resolved(call)), bld.opts),
                  bld.data))
  /\ UNCHANGED <<baseUrl, builders, arrays, userArrays>>

\* The header list is read when run() resumes: the sources the builder
\* holds at that moment are merged, those added since run() was invoked
\* included.
DispatchLateHeaders(c) ==
  LET call == calls[c]
      bld == builders[call.b]
      now == HeadersOf(call.b)
  IN
  /\ call.pc = "headers"
  /\ AllFulfilled(call)
  /\ calls' = [calls EXCEPT ![c].pc = "fetch", ![c].opts = bld.opts]
  /\ fetchLog' = Append(fetchLog,
       Invocation(c, call.url,
                  RequestInit(call.method,
                              MergeHeaders([i \in 1..Len(now) |-> now[i].ret]),
                              bld.opts),
                  bld.data))
  /\ UNCHANGED <<baseUrl, builders, arrays, userArrays>>

\* The builder is reset once its request is handed to the transport: the
\* options and the payload are cleared.
DispatchResets(c) ==
  LET call == calls[c]
      bld == builders[call.b]
  IN
  /\ call.pc = "headers"
  /\ AllFulfilled(call)
  /\ calls' = [calls EXCEPT ![c].pc = "fetch", ![c].opts = bld.opts]
  /\ fetchLog' = Append(fetchLog,
       Invocation(c, call.url,
                  RequestInit(call.method, MergeHeaders(Resolved(call)), bld.opts),
                  bld.data))
  /\ builders' = [builders EXCEPT ![call.b].opts = EmptyObj,
                                  ![call.b].data = Undefined]
  /\ UNCHANGED <<baseUrl, arrays, userArrays>>

\* The request of call c is handed to the transport twice.
DispatchTwice(c) ==
  LET call == calls[c]
      bld == builders[call.b]
      inv == Invocation(c, call.url,
               RequestInit(call.method, MergeHeaders(Resolved(call)), bld.opts),
               bld.data)
  IN
  /\ call.pc = "headers"
  /\ AllFulfilled(call)
  /\ calls' = [calls EXCEPT ![c].pc = "fetch", ![c].opts = bld.opts]
  /\ fetchLog' = fetchLog \o <<inv, inv>>
  /\ UNCHANGED <<baseUrl, builders, arrays, userArrays>>

\* run() resumes after the await: the headers are reduced, this.#opts and
\* this.#data are read, and _fetch is invoked.
Dispatch(c) ==
  LET call == calls[c]
      bld == builders[call.b]
  IN
  /\ call.pc = "headers"
  /\ AllFulfilled(call)
  /\ calls' = [calls EXCEPT ![c].pc = "fetch", ![c].opts = bld.opts]
  /\ fetchLog' = Append(fetchLog,
       Invocation(c, call.url,
                  RequestInit(call.method, MergeHeaders(Resolved(call)), bld.opts),
                  bld.data))
  /\ UNCHANGED <<baseUrl, builders, arrays, userArrays>>

\* The result with the parsed body spread first: ok and status of the
\* response win over the body's keys.
JsonResultBodyFirst(response) ==
  Spread(response.body, [ok |-> response.ok, status |-> response.status])

\* The value runJSON resolves with: { ok, status, ...parsedJSON }.
JsonResult(response) ==
  Spread([ok |-> response.ok, status |-> response.status], response.body)

\* The transport resolves with a response: run() resolves with it; runJSON
\* goes on to response.json().
FetchResolves(c, response) ==
  /\ calls[c].pc = "fetch"
  /\ calls' = [calls EXCEPT ![c] =
       IF calls[c].json
       THEN [calls[c] EXCEPT !.pc = "json", !.resp = response]
       ELSE [calls[c] EXCEPT !.pc = "done", !.resp = response,
                             !.outcome = "fulfilled"]]
  /\ fetchLog' = Replied(fetchLog, c, "resolved")
  /\ UNCHANGED <<baseUrl, builders, arrays, userArrays>>

\* After a failed invocation the transport is invoked again with the same
\* arguments and the call keeps waiting.
FetchRejectsRetry(c, e) ==
  /\ calls[c].pc = "fetch"
  /\ fetchLog' = Append(Replied(fetchLog, c, e),
       [CHOOSE inv \in {fetchLog[i] : i \in 1..Len(fetchLog)} : inv.call = c
          EXCEPT !.reply = "pending"])
  /\ UNCHANGED <<baseUrl, builders, arrays, userArrays, calls>>

\* The transport fails: the promise run() returned rejects with its error.
FetchRejects(c, e) ==
  /\ calls[c].pc = "fetch"
  /\ calls' = [calls EXCEPT ![c] = RejectCall(calls[c], e)]
  /\ fetchLog' = Replied(fetchLog, c, e)
  /\ UNCHANGED <<baseUrl, builders, arrays, userArrays>>

\* response.json() settles.
JsonSettles(c) ==
  /\ calls[c].pc = "json"
  /\ calls' = [calls EXCEPT ![c] =
       IF calls[c].resp.parseErr = NoError
       THEN [calls[c] EXCEPT !.pc = "done", !.outcome = "fulfilled",
                             !.result = JsonResult(calls[c].resp)]
       ELSE RejectCall(calls[c], calls[c].resp.parseErr)]
  /\ UNCHANGED <<baseUrl, builders, arrays, userArrays, fetchLog>>

(***************************************************************************)
(* Spec: the life of one builder, from its factory to its settled terminal *)
(* calls.  Builders share nothing but the base URL and, through the        *)
(* low-level constructor, a header array; neither is written here, so one  *)
(* builder is followed.                                                    *)
(***************************************************************************)
NoBuilder == builders = <<>>

LifeHeaders == {AsyncFn([X |-> "2"]), AsyncFnRejects("E2"), FnThrows("E1")}

LifeResponses ==
  { Response("false", "404", [msg |-> "not found"], NoError),
    Response("true", "200", EmptyObj, "SyntaxError") }

Next ==
  \/ NoBuilder /\ GET(PathRel)
  \/ NoBuilder /\ POST(PathRel)
  \/ NoBuilder /\ PUT(PathRel)
  \/ NoBuilder /\ DEL(PathRel)
  \/ NoBuilder /\ _METHODS_WO_DATA("HEAD", PathRel)
  \/ NoBuilder /\ _METHODS_WITH_DATA("PATCH", PathRel)
  \/ \E b \in Builders, h \in LifeHeaders :
       Len(HeadersOf(b)) < MaxLifeHeaders /\ header(b, h)
  \/ \E b \in Builders : Len(calls) < MaxCalls /\ run(b)
  \/ \E b \in Builders : Len(calls) < MaxCalls /\ runJSON(b)
  \/ \E c \in Calls : \E i \in 1..Len(calls[c].slots) : Settle(c, i)
  \/ \E c \in Calls : Dispatch(c)
  \/ \E c \in Calls, r \in LifeResponses : FetchResolves(c, r)
  \/ \E c \in Calls, e \in TransportErrors : FetchRejects(c, e)
  \/ \E c \in Calls : JsonSettles(c)

Spec == Init /\ [][Next]_vars

(***************************************************************************)
(* Transport invocations per terminal call and per builder.                *)
(***************************************************************************)
InvocationsOf(c) == {i \in 1..Len(fetchLog) : fetchLog[i].call = c}

CallsOn(b) == {c \in Calls : calls[c].b = b}

InvocationsBy(b) == {i \in 1..Len(fetchLog) : calls[fetchLog[i].call].b = b}

\* A header source of the call fails when it is invoked or awaited.
HasFailingSource(c) ==
  \E i \in 1..Len(calls[c].srcs) : calls[c].srcs[i].err # NoError

\* C2 as stated: every terminal call that has completed made exactly one
\* invocation of the transport, never zero and never more than one.
C2_ExactlyOneInvocationPerCall ==
  \A c \in Calls :
    calls[c].pc = "done" => Cardinality(InvocationsOf(c)) = 1

\* C2 amended: a terminal call never invokes the transport more than once,
\* also after the transport failed (no retry); once its header resolution
\* is over it has invoked the transport exactly once, unless one of its
\* header sources fails, in which case it completes with zero invocations.
C2_OneInvocationUnlessHeadersFail ==
  \A c \in Calls :
    /\ Cardinality(InvocationsOf(c)) <= 1
    /\ calls[c].pc = "headers" => InvocationsOf(c) = {}
    /\ calls[c].pc \in {"fetch", "json"} => Cardinality(InvocationsOf(c)) = 1
    /\ calls[c].pc = "done" =>
         Cardinality(InvocationsOf(c)) = IF HasFailingSource(c) THEN 0 ELSE 1

\* Two completed calls: one whose single transport invocation failed, and
\* one that a failing header source ended before any invocation.
C2_Witness ==
  \E c, d \in Calls :
    /\ calls[c].pc = "done" /\ calls[c].error \in TransportErrors
    /\ Cardinality(InvocationsOf(c)) = 1
    /\ calls[d].pc = "done" /\ HasFailingSource(d)
    /\ InvocationsOf(d) = {}

\* C10 as stated: a builder is consumed by one terminal call and causes at
\* most one transport invocation over its whole life.
C10_OneTerminalCallPerBuilder ==
  \A b \in Builders :
    /\ Cardinality(CallsOn(b)) <= 1
    /\ Cardinality(InvocationsBy(b)) <= 1

\* C10 amended: the resolution algorithm runs once per terminal call, not
\* once per builder: a builder accepts any number of terminal calls, no two
\* transport invocations belong to the same call, and the invocations a
\* builder causes never outnumber the terminal calls made on it.
C10_OneResolutionPerTerminalCall ==
  /\ \A i, j \in 1..Len(fetchLog) :
       fetchLog[i].call = fetchLog[j].call => i = j
  /\ \A b \in Builders :
       Cardinality(InvocationsBy(b)) <= Cardinality(CallsOn(b))

\* One builder, two terminal calls, two transport invocations.
C10_Witness ==
  \E b \in Builders :
    /\ Cardinality(CallsOn(b)) = 2
    /\ Cardinality(InvocationsBy(b)) = 2

(***************************************************************************)
(* SpecUrl: URL resolution.  One builder per path, the base URL written at *)
(* any moment, terminal calls on it.                                       *)
(***************************************************************************)
PathSecure == Https \o <<"a">>

PathMixedCase == <<"H", "t", "T", "p", "S", ":", "/", "/", "a">>

PathEmbedded == <<"a", "/">> \o Http \o <<"a">>

PathNearMiss == <<"h", "t", "t", "p", ":", "/", "a">>

PathBare == <<"a">>

UrlPaths ==
  {PathRel, PathAbs, PathSecure, PathMixedCase, PathEmbedded, PathNearMiss, PathBare}

BaseSlash == Http \o <<"b", "/">>

UrlBases == {<<>>, BaseLocal, BaseSlash}

UrlResponses == {Response("true", "200", [msg |-> "hi"], NoError)}

NextUrl ==
  \/ \E p \in UrlPaths : NoBuilder /\ GET(p)
  \/ \E u \in UrlBases : SetBaseUrl(u)
  \/ \E b \in Builders : Len(calls) < MaxCalls /\ run(b)
  \/ \E c \in Calls : Dispatch(c)
  \/ \E c \in Calls, r \in UrlResponses : FetchResolves(c, r)

SpecUrl == Init /\ [][NextUrl]_vars

\* The paths of UrlPaths that contain http:// or https:// in some case at
\* some position, and those that do not.
SchemePaths == {PathAbs, PathSecure, PathMixedCase, PathEmbedded}

SchemelessPaths == {PathRel, PathNearMiss, PathBare}

PathOf(c) == builders[calls[c].b].path

\* C3: when the path of the builder contains http:// or https:// (any case,
\* any position), the URL passed to the transport is the path itself,
\* whatever the base URL is or was.
C3_SchemePathPassedVerbatim ==
  \A i \in 1..Len(fetchLog) :
    PathOf(fetchLog[i].call) \in SchemePaths =>
      fetchLog[i].url = PathOf(fetchLog[i].call)

\* A mixed-case scheme and a scheme in the middle of the path, each passed
\* to the transport while the base URL is set.
C3_Witness ==
  /\ baseUrl = BaseLocal
  /\ \E i \in 1..Len(fetchLog) :
       /\ PathOf(fetchLog[i].call) \in {PathMixedCase, PathEmbedded}
       /\ fetchLog[i].url = PathOf(fetchLog[i].call)

\* C4: when the path contains no scheme, the URL of a terminal call is the
\* base URL of the state in which run() is invoked followed directly by the
\* path, and that URL is the one the transport is invoked with.
C4_BaseReadAtTerminalCall ==
  [][/\ Len(calls') = Len(calls) + 1 =>
          LET c == Len(calls') IN
          builders[calls'[c].b].path \in SchemelessPaths =>
            calls'[c].url = baseUrl \o builders[calls'[c].b].path
     /\ Len(fetchLog') = Len(fetchLog) + 1 =>
          LET inv == fetchLog'[Len(fetchLog')] IN
          inv.url = calls[inv.call].url]_vars

\* Two terminal calls on one builder with a scheme-less path reached the
\* transport with different URLs: the base URL was written in between (and
\* after construction); a base URL ending in / keeps its slash.
C4_Witness ==
  \E i, j \in 1..Len(fetchLog) :
    /\ calls[fetchLog[i].call].b = calls[fetchLog[j].call].b
    /\ PathOf(fetchLog[i].call) = PathRel
    /\ fetchLog[i].url = BaseLocal \o PathRel
    /\ fetchLog[j].url = BaseSlash \o PathRel

(***************************************************************************)
(* SpecJson: run() and runJSON() over the answers of the transport.        *)
(***************************************************************************)
JsonResponses ==
  { Response("false", "404", [msg |-> "not found"], NoError),
    Response("true", "200", [ok |-> "custom"], NoError),
    Response("true", "200", [status |-> "teapot", msg |-> "hi"], NoError),
    Response("false", "500", [ok |-> "custom", status |-> "teapot"], NoError),
    Response("true", "200", EmptyObj, NoError),
    Response("true", "200", EmptyObj, "SyntaxError") }

NextJson ==
  \/ NoBuilder /\ GET(PathRel)
  \/ \E b \in Builders : Len(calls) < MaxCalls /\ run(b)
  \/ \E b \in Builders : Len(calls) < MaxCalls /\ runJSON(b)
  \/ \E c \in Calls : Dispatch(c)
  \/ \E c \in Calls, r \in JsonResponses : FetchResolves(c, r)
  \/ \E c \in Calls, e \in TransportErrors : FetchRejects(c, e)
  \/ \E c \in Calls : JsonSettles(c)

SpecJson == Init /\ [][NextJson]_vars

\* C7: a runJSON call that resolves yields a mapping whose keys are ok,
\* status and the keys of the parsed body B; every key of B carries B's
\* value, and ok and status carry the values of the response exactly when B
\* has no key of that name.
C7_JsonResultIsBodyOverOkStatus ==
  \A c \in Calls :
    (calls[c].json /\ calls[c].outcome = "fulfilled") =>
      LET B == calls[c].resp.body
          res == calls[c].result
      IN
      /\ DOMAIN res = {"ok", "status"} \cup DOMAIN B
      /\ \A k \in DOMAIN B : res[k] = B[k]
      /\ "ok" \notin DOMAIN B => res["ok"] = calls[c].resp.ok
      /\ "status" \notin DOMAIN B => res["status"] = calls[c].resp.status

\* The 404 answer with body {msg} and the 200 answer with body {ok}, each
\* turned into a result by runJSON.
C7_Witness ==
  \E c, d \in Calls :
    /\ calls[c].json /\ calls[c].outcome = "fulfilled"
    /\ calls[c].result = [ok |-> "false", status |-> "404", msg |-> "not found"]
    /\ calls[d].json /\ calls[d].outcome = "fulfilled"
    /\ calls[d].resp.body = [ok |-> "custom"]
    /\ calls[d].result = [ok |-> "custom", status |-> "200"]

(***************************************************************************)
(* SpecMerge: header sources of every kind accumulated on a builder of any *)
(* factory, resolved in any order, merged and dispatched.                  *)
(***************************************************************************)
ContentType == "Content-Type"

MergeSources ==
  { Obj([X |-> "1"]),
    Fn([X |-> "2", Y |-> "2"]),
    AsyncFn([X |-> "3"]),
    AsyncFn([X |-> "4", Y |-> "4"]),
    Fn((ContentType :> "text/plain")) }

MergeOptions == {EmptyObj, [headers |-> [X |-> "9"]]}

NextMerge ==
  \/ NoBuilder /\ GET(PathRel)
  \/ NoBuilder /\ POST(PathRel)
  \/ NoBuilder /\ PUT(PathRel)
  \/ NoBuilder /\ DEL(PathRel)
  \/ NoBuilder /\ _METHODS_WO_DATA("HEAD", PathRel)
  \/ NoBuilder /\ _METHODS_WITH_DATA("PATCH", PathRel)
  \/ \E b \in Builders, h \in MergeSources :
       Len(HeadersOf(b)) < MaxHeaders /\ header(b, h)
  \/ \E b \in Builders, o \in MergeOptions : options(b, o)
  \/ \E b \in Builders : Len(calls) < MaxRuns /\ run(b)
  \/ \E c \in Calls : \E i \in 1..Len(calls[c].slots) : Settle(c, i)
  \/ \E c \in Calls : Dispatch(c)
  \/ \E c \in Calls, r \in UrlResponses : FetchResolves(c, r)

SpecMerge == Init /\ [][NextMerge]_vars

\* The sources of a sequence that supply key k.
Supplying(srcs, k) == {i \in 1..Len(srcs) : k \in DOMAIN srcs[i].ret}

Last(S) == CHOOSE i \in S : \A j \in S : j <= i

\* Key by key: the value of the last-inserted source that supplies the key.
LastInsertedWins(srcs) ==
  [k \in UNION {DOMAIN srcs[i].ret : i \in 1..Len(srcs)} |->
     srcs[Last(Supplying(srcs, k))].ret[k]]

\* C1: when the options spread into the request have no headers key, the
\* headers passed to the transport hold, for every key some source of the
\* call supplies, the value of the last-inserted such source, and no other
\* key, in whatever order the asynchronous sources settled.
C1_HeadersMergedInInsertionOrder ==
  \A i \in 1..Len(fetchLog) :
    LET call == calls[fetchLog[i].call] IN
    "headers" \notin DOMAIN call.opts =>
      fetchLog[i].options["headers"] = LastInsertedWins(call.srcs)

\* Two async sources supplying the same key settled in the reverse of their
\* insertion order, and the later-inserted one decided the key.
C1_Witness ==
  \E n \in 1..Len(fetchLog) :
    LET call == calls[fetchLog[n].call] IN
    /\ "headers" \notin DOMAIN call.opts
    /\ \E i, j \in 1..Len(call.srcs) :
         /\ i < j
         /\ call.srcs[i].kind = "async" /\ call.srcs[j].kind = "async"
         /\ call.srcs[i].ret["X"] # call.srcs[j].ret["X"]
         /\ \E p, q \in 1..Len(call.order) :
              p < q /\ call.order[p] = j /\ call.order[q] = i
         /\ fetchLog[n].options["headers"]["X"] = call.srcs[j].ret["X"]

BodyMethods == {"POST", "PUT", "PATCH"}

\* C8: a builder made by POST, PUT or _METHODS_WITH_DATA starts with the
\* single source {"Content-Type": "application/json"}, one made by GET, DEL
\* or _METHODS_WO_DATA with no source; header() only appends, so that entry
\* stays first, and the headers merged for a call on such a builder carry
\* Content-Type: application/json unless a later source of the call
\* supplies that key, whose last value then stands.
C8_DefaultContentTypeFirst ==
  [][/\ Len(builders') = Len(builders) + 1 =>
          LET new == builders'[Len(builders')] IN
          arrays'[new.headers] =
            IF new.method \in BodyMethods THEN <<ContentTypeJson>> ELSE <<>>
     /\ \A b \in Builders :
          /\ Len(HeadersOf(b)) <= Len(arrays'[builders'[b].headers])
          /\ SubSeq(arrays'[builders'[b].headers], 1, Len(HeadersOf(b))) = HeadersOf(b)
     /\ Len(fetchLog') = Len(fetchLog) + 1 =>
          LET inv == fetchLog'[Len(fetchLog')]
              call == calls'[inv.call]
              later == {i \in Supplying(call.srcs, ContentType) : i > 1}
          IN
          (call.method \in BodyMethods /\ "headers" \notin DOMAIN call.opts) =>
            /\ ContentType \in DOMAIN inv.options["headers"]
            /\ inv.options["headers"][ContentType] =
                 IF later = {} THEN "application/json"
                 ELSE call.srcs[Last(later)].ret[ContentType]]_vars

\* A PUT builder whose pushed source supplies no Content-Type reached the
\* transport with the default one.
C8_Witness ==
  \E n \in 1..Len(fetchLog) :
    LET call == calls[fetchLog[n].call] IN
    /\ call.method = "PUT"
    /\ Len(call.srcs) = 2
    /\ call.srcs[1] = ContentTypeJson
    /\ ContentType \notin DOMAIN call.srcs[2].ret
    /\ "headers" \notin DOMAIN call.opts
    /\ fetchLog[n].options["headers"][ContentType] = "application/json"

(***************************************************************************)
(* SpecOptions: options() called any number of times, before and between  *)
(* terminal calls and while a call is suspended.                           *)
(***************************************************************************)
OptionSources == {Obj([X |-> "3"])}

OptionsPool ==
  { EmptyObj,
    [cache |-> "no-cache"],
    [headers |-> [X |-> "9"]],
    [method |-> "PATCH", credentials |-> "include"] }

NextOptions ==
  \/ NoBuilder /\ GET(PathRel)
  \/ NoBuilder /\ POST(PathRel)
  \/ \E b \in Builders, h \in OptionSources :
       Len(HeadersOf(b)) < MaxHeaders /\ header(b, h)
  \/ \E b \in Builders, o \in OptionsPool : options(b, o)
  \/ \E b \in Builders : Len(calls) < MaxCalls /\ run(b)
  \/ \E c \in Calls : Dispatch(c)
  \/ \E c \in Calls, r \in UrlResponses : FetchResolves(c, r)

SpecOptions == Init /\ [][NextOptions]_vars

\* C5: the options passed to the transport have the keys method, headers
\* and those of the options record spread into them; every key of that
\* record carries the record's value (headers: exactly options.headers,
\* without any header source; method: options.method), and a key the record
\* lacks carries the computed value: the builder's method, the merged
\* headers.
C5_OptionsOverlayRequest ==
  \A i \in 1..Len(fetchLog) :
    LET call == calls[fetchLog[i].call]
        req == fetchLog[i].options
    IN
    /\ DOMAIN req = {"method", "headers"} \cup DOMAIN call.opts
    /\ \A k \in DOMAIN call.opts : req[k] = call.opts[k]
    /\ "method" \notin DOMAIN call.opts => req["method"] = builders[call.b].method
    /\ "headers" \notin DOMAIN call.opts =>
         req["headers"] = LastInsertedWins(call.srcs)

\* A POST builder with a pushed source reached the transport once with
\* options.headers alone as its headers and once with options.method as its
\* method.
C5_Witness ==
  \E i, j \in 1..Len(fetchLog) :
    LET ci == calls[fetchLog[i].call]
        cj == calls[fetchLog[j].call]
    IN
    /\ ci.method = "POST" /\ Len(ci.srcs) = 2
    /\ ci.opts = [headers |-> [X |-> "9"]]
    /\ fetchLog[i].options = [method |-> "POST", headers |-> [X |-> "9"]]
    /\ cj.method = "POST"
    /\ "method" \in DOMAIN cj.opts
    /\ fetchLog[j].options["method"] = "PATCH"
    /\ fetchLog[j].options["headers"][ContentType] = "application/json"

\* C9: whenever the options record of a builder changes, the new record is
\* exactly one argument of options(), never a combination with the record
\* it replaces; and the request of a terminal call is overlaid with exactly
\* the record the builder holds when the call dispatches: beyond method and
\* headers it has that record's keys and no others.
C9_OptionsReplaced ==
  [][/\ \A b \in Builders :
          builders'[b].opts # builders[b].opts => builders'[b].opts \in OptionsPool
     /\ Len(fetchLog') = Len(fetchLog) + 1 =>
          LET inv == fetchLog'[Len(fetchLog')]
              held == builders[calls[inv.call].b].opts
          IN
          /\ DOMAIN inv.options = {"method", "headers"} \cup DOMAIN held
          /\ \A k \in DOMAIN held : inv.options[k] = held[k]]_vars

\* Two terminal calls on one builder: the earlier request carries the cache
\* option, the later one carries options set afterwards and no cache key.
C9_Witness ==
  \E i, j \in 1..Len(fetchLog) :
    /\ i < j
    /\ calls[fetchLog[i].call].b = calls[fetchLog[j].call].b
    /\ "cache" \in DOMAIN fetchLog[i].options
    /\ "credentials" \in DOMAIN fetchLog[j].options
    /\ "cache" \notin DOMAIN fetchLog[j].options

(***************************************************************************)
(* SpecErrors: terminal calls whose header sources, transport or body      *)
(* parser fail.                                                            *)
(***************************************************************************)
ErrorSources ==
  { AsyncFn([X |-> "3"]),
    FnThrows("E1"),
    AsyncFnRejects("E2"),
    AsyncFnRejects("E3") }

ErrorResponses ==
  { Response("true", "200", [msg |-> "hi"], NoError),
    Response("true", "200", EmptyObj, "SyntaxError") }

NextErrors ==
  \/ NoBuilder /\ GET(PathRel)
  \/ \E b \in Builders, h \in ErrorSources :
       Len(HeadersOf(b)) < MaxHeaders /\ header(b, h)
  \/ \E b \in Builders : Len(calls) < MaxRuns /\ run(b)
  \/ \E b \in Builders : Len(calls) < MaxRuns /\ runJSON(b)
  \/ \E c \in Calls : \E i \in 1..Len(calls[c].slots) : Settle(c, i)
  \/ \E c \in Calls : Dispatch(c)
  \/ \E c \in Calls, r \in ErrorResponses : FetchResolves(c, r)
  \/ \E c \in Calls, e \in TransportErrors : FetchRejects(c, e)
  \/ \E c \in Calls : JsonSettles(c)

SpecErrors == Init /\ [][NextErrors]_vars

\* The header sources of call c that have failed so far.
FailedSources(c) ==
  {i \in 1..Len(calls[c].slots) : calls[c].slots[i].st \in {"threw", "rejected"}}

\* The error values of the failures that have arisen in call c: of header
\* sources that threw or rejected, of the transport, of the body parser.
Failures(c) ==
  {calls[c].srcs[i].err : i \in FailedSources(c)}
  \cup {fetchLog[i].reply : i \in {j \in InvocationsOf(c) :
                                     fetchLog[j].reply \notin {"pending", "resolved"}}}
  \cup (IF calls[c].json /\ calls[c].pc = "done" /\ calls[c].resp.parseErr # NoError
        THEN {calls[c].resp.parseErr} ELSE {})

\* The failure that reaches the call first: the throw of a sync source (map
\* stops there), else the first rejection to settle, else the one failure
\* of the transport or of the parser.
FirstFailure(c) ==
  LET call == calls[c]
      threw == {i \in FailedSources(c) : call.slots[i].st = "threw"}
      rejected == {p \in 1..Len(call.order) : call.slots[call.order[p]].st = "rejected"}
  IN
  IF threw # {} THEN call.srcs[CHOOSE i \in threw : TRUE].err
  ELSE IF rejected # {}
       THEN call.srcs[call.order[CHOOSE p \in rejected : \A q \in rejected : p <= q]].err
  ELSE CHOOSE e \in Failures(c) : TRUE

\* C6 as stated: every failure that arises during a terminal call is the
\* error the terminal call fails with.
C6_EveryFailurePropagates ==
  \A c \in Calls :
    \A e \in Failures(c) :
      calls[c].outcome = "rejected" /\ calls[c].error = e

\* C6 amended: a terminal call in which a failure has arisen is rejected,
\* never fulfilled, has no result, and its error is, unmodified, the error
\* value of the first failure to reach it; a rejected call carries no error
\* other than one that arose in it.
C6_FirstFailurePropagatesUnmodified ==
  \A c \in Calls :
    /\ Failures(c) # {} =>
         /\ calls[c].outcome = "rejected"
         /\ calls[c].error = FirstFailure(c)
         /\ calls[c].result = EmptyObj
    /\ calls[c].outcome = "rejected" => calls[c].error \in Failures(c)

\* Two async sources of one call rejected with different errors: the call
\* failed with the one that settled first, here the later-inserted one.
C6_Witness ==
  \E c \in Calls :
    /\ Len(calls[c].order) = 2
    /\ calls[c].order[1] > calls[c].order[2]
    /\ \A i \in 1..2 : calls[c].slots[i].st = "rejected"
    /\ calls[c].srcs[1].err # calls[c].srcs[2].err
    /\ calls[c].outcome = "rejected"
    /\ calls[c].error = calls[c].srcs[calls[c].order[1]].err

(***************************************************************************)
(* SpecShared: two builders.  The caller creates one array of header       *)
(* sources and passes it to the low-level constructor; the second builder  *)
(* is made with the same array or by a factory.                            *)
(***************************************************************************)
OneBuilder == Len(builders) = 1

SharedArrays == {<<>>, <<Obj([Y |-> "2"])>>}

SharedSources == {Obj([X |-> "1"])}

SharedOptions == {[cache |-> "no-store"]}

SharedData == {"d1"}

NextShared ==
  \/ \E hs \in SharedArrays : userArrays = {} /\ NewArray(hs)
  \/ \E a \in userArrays :
       NoBuilder /\ ConstructWithArray("GET", PathRel, EmptyObj, a)
  \/ \E a \in userArrays :
       OneBuilder /\ ConstructWithArray("GET", PathRel, EmptyObj, a)
  \/ OneBuilder /\ GET(PathRel)
  \/ \E b \in Builders, h \in SharedSources :
       Len(HeadersOf(b)) < MaxHeaders /\ header(b, h)
  \/ \E b \in Builders, o \in SharedOptions : options(b, o)
  \/ \E b \in Builders, d \in SharedData : data(b, d)
  \/ \E b \in Builders : Len(calls) < MaxRuns /\ run(b)
  \/ \E c \in Calls : Dispatch(c)

SpecShared == Init /\ [][NextShared]_vars

\* What a terminal call on builder b reads from the builder.
UsedBy(b) ==
  [headers |-> HeadersOf(b), opts |-> builders[b].opts, data |-> builders[b].data]

\* C11 as stated: a header(), options() or data() call on one builder
\* leaves unchanged the header sources, options and data that any other
\* builder uses in its terminal call.
C11_NoSharedMutableState ==
  [][\A b \in Builders : \A o \in Builders \ {b} :
       (\/ \E h \in SharedSources : header(o, h)
        \/ \E op \in SharedOptions : options(o, op)
        \/ \E d \in SharedData : data(o, d))
       => UsedBy(b)' = UsedBy(b)]_vars

(***************************************************************************)
(* SpecData: one builder of any method, every chainable method and both    *)
(* terminal calls.  The caller sets a payload and then overwrites it.      *)
(***************************************************************************)
DataPaths == {PathRel, PathAbs}

DataSources == {Obj([X |-> "1"])}

DataOptions == {[cache |-> "no-store"]}

FirstPayload == "d1"

SecondPayload == "d2"

DataResponses == {Response("true", "200", [msg |-> "hi"], NoError)}

NextData ==
  \/ \E p \in DataPaths : NoBuilder /\ GET(p)
  \/ \E p \in DataPaths : NoBuilder /\ DEL(p)
  \/ \E p \in DataPaths : NoBuilder /\ _METHODS_WO_DATA("HEAD", p)
  \/ \E p \in DataPaths : NoBuilder /\ _METHODS_WO_DATA("OPTIONS", p)
  \/ \E p \in DataPaths : NoBuilder /\ POST(p)
  \/ \E b \in Builders, h \in DataSources :
       Len(HeadersOf(b)) < MaxLifeHeaders /\ header(b, h)
  \/ \E b \in Builders, o \in DataOptions : options(b, o)
  \/ \E b \in Builders : builders[b].data = Undefined /\ data(b, FirstPayload)
  \/ \E b \in Builders : builders[b].data = FirstPayload /\ data(b, SecondPayload)
  \/ \E b \in Builders : Len(calls) < MaxRuns /\ run(b)
  \/ \E b \in Builders : Len(calls) < MaxRuns /\ runJSON(b)
  \/ \E c \in Calls : Dispatch(c)
  \/ \E c \in Calls, r \in DataResponses : FetchResolves(c, r)
  \/ \E c \in Calls : JsonSettles(c)

SpecData == Init /\ [][NextData]_vars

\* The methods that typically carry no entity body.
BodilessMethods == {"GET", "DELETE", "HEAD", "OPTIONS"}

\* C12 as stated: for a builder whose method is GET, DELETE, HEAD or
\* OPTIONS the transport receives no body, even if data() was called.
C12_NoBodyForBodilessMethods ==
  \A i \in 1..Len(fetchLog) :
    builders[calls[fetchLog[i].call].b].method \in BodilessMethods =>
      fetchLog[i].body = Undefined

\* C12 amended: whatever the method of the builder, the body the transport
\* is invoked with is the payload the builder holds at that moment, the
\* argument of the most recent data() call, and undefined only if data()
\* was never called.
C12_BodyIsLatestDataWhateverMethod ==
  [][Len(fetchLog') = Len(fetchLog) + 1 =>
       LET inv == fetchLog'[Len(fetchLog')]
           bld == builders[calls[inv.call].b]
       IN inv.body = bld.data]_vars

\* A GET builder whose payload was set and then overwritten: the transport
\* received the second payload as the body.
C12_Witness ==
  \E i \in 1..Len(fetchLog) :
    /\ builders[calls[fetchLog[i].call].b].method = "GET"
    /\ fetchLog[i].body = SecondPayload

\* The step constructs one builder with the given method and path.
Made(method, path) ==
  /\ Len(builders') = Len(builders) + 1
  /\ builders'[Len(builders')].method = method
  /\ builders'[Len(builders')].path = path

\* C13: a factory gives the builder the method it is named after and the
\* path it is passed, and no step of header(), options(), data(), run() or
\* runJSON(), nor any later step of a terminal call, changes the method or
\* the path of an existing builder.
C13_MethodAndPathNeverChange ==
  [][/\ \A b \in Builders :
          /\ builders'[b].method = builders[b].method
          /\ builders'[b].path = builders[b].path
     /\ \A p \in DataPaths :
          /\ GET(p) => Made("GET", p)
          /\ DEL(p) => Made("DELETE", p)
          /\ POST(p) => Made("POST", p)
          /\ _METHODS_WO_DATA("HEAD", p) => Made("HEAD", p)]_vars

\* A DELETE builder on a full URL that went through header(), options(),
\* two data() calls and a completed runJSON(), and is still a DELETE on
\* that URL.
C13_Witness ==
  \E c \in Calls :
    LET bld == builders[calls[c].b] IN
    /\ calls[c].json /\ calls[c].pc = "done"
    /\ bld.method = "DELETE" /\ bld.path = PathAbs
    /\ bld.data = SecondPayload
    /\ bld.opts # EmptyObj
    /\ HeadersOf(calls[c].b) # <<>>

(***************************************************************************)
(* Fan-out of the header sources (checked in SpecErrors).                  *)
(***************************************************************************)
\* Source i of call c was reached by map: if callable, it was invoked.
Invoked(c, i) == calls[c].slots[i].st # "skipped"

\* A sync function before position i of the sources throws.
SyncThrowBefore(srcs, i) ==
  \E j \in 1..(i - 1) : srcs[j].kind = "function" /\ srcs[j].err # NoError

\* C14 as stated: every header source of a terminal call is invoked; no
\* pending or failing source prevents the invocation of a later one.
C14_EverySourceInvoked ==
  \A c \in Calls : \A i \in 1..Len(calls[c].srcs) : Invoked(c, i)

\* C14 amended: from the moment run() suspends, every source has been
\* invoked except those inserted after a sync function that threw; an
\* async source, pending, fulfilled or rejected, never keeps a later source
\* from being invoked, and a call in which no sync function throws has all
\* its sources invoked before any has settled; a call with a source left
\* uninvoked is a failed call.
C14_FanOutUnlessSyncThrow ==
  \A c \in Calls :
    /\ \A i \in 1..Len(calls[c].srcs) :
         Invoked(c, i) <=> ~SyncThrowBefore(calls[c].srcs, i)
    /\ \A i \in 1..Len(calls[c].srcs) :
         SyncThrowBefore(calls[c].srcs, i) => calls[c].outcome = "rejected"

\* An async source that will reject is still pending, nothing has settled,
\* and the source inserted after it has already been invoked.
C14_Witness ==
  \E c \in Calls :
    /\ Len(calls[c].srcs) = 2
    /\ calls[c].order = <<>>
    /\ calls[c].srcs[1].kind = "async" /\ calls[c].srcs[1].err # NoError
    /\ calls[c].slots[1].st = "pending"
    /\ calls[c].slots[2].st = "pending"

(***************************************************************************)
(* The transport waits for every header source (checked in SpecMerge).     *)
(***************************************************************************)
AsyncSources(srcs) == {i \in 1..Len(srcs) : srcs[i].kind = "async"}

\* The keys the sources of a sequence supply between them.
KeysOf(srcs) == UNION {DOMAIN srcs[i].ret : i \in 1..Len(srcs)}

\* C15: whenever the transport has been invoked for a terminal call, no
\* header source of that call is pending: every async source has settled,
\* every source has resolved, and the headers dispatched (unless the
\* options replaced them) carry the keys of all the sources of the call,
\* not of a part of them.
C15_TransportAfterAllSourcesSettled ==
  \A n \in 1..Len(fetchLog) :
    LET call == calls[fetchLog[n].call] IN
    /\ \A i \in 1..Len(call.srcs) : call.slots[i].st = "fulfilled"
    /\ {call.order[p] : p \in 1..Len(call.order)} = AsyncSources(call.srcs)
    /\ "headers" \notin DOMAIN call.opts =>
         DOMAIN fetchLog[n].options["headers"] = KeysOf(call.srcs)

\* The transport was invoked for a call with two async sources, after both
\* had settled, with the keys of both among the headers.
C15_Witness ==
  \E n \in 1..Len(fetchLog) :
    LET call == calls[fetchLog[n].call] IN
    /\ AsyncSources(call.srcs) = {1, 2}
    /\ Len(call.order) = 2
    /\ "headers" \notin DOMAIN call.opts
    /\ {"X", "Y"} \subseteq DOMAIN fetchLog[n].options["headers"]

(***************************************************************************)
(* SpecWindow: one builder, configured before its terminal call and        *)
(* reconfigured while the header sources of a call are pending.  The       *)
(* caller sets options with a headers key only before the first call, and  *)
(* sets the cache option, the payload and the base URL only while sources  *)
(* are pending, so that a value seen later tells when it was written.      *)
(***************************************************************************)
WindowSources == {AsyncFn([X |-> "3"]), AsyncFnRejects("E2"), FnThrows("E1")}

LateSource == Obj([Z |-> "5"])

ShadowOptions == [headers |-> [X |-> "9"]]

LateOptions == [cache |-> "no-store"]

LatePayload == "d1"

WindowResponses == {Response("true", "200", [msg |-> "hi"], NoError)}

\* run() on builder b is suspended with a header source still pending.
Pending(b) ==
  \E c \in CallsOn(b) :
    /\ calls[c].pc = "headers"
    /\ \E i \in 1..Len(calls[c].slots) : calls[c].slots[i].st = "pending"

NextWindow ==
  \/ NoBuilder /\ GET(PathRel)
  \/ \E b \in Builders, h \in WindowSources :
       calls = <<>> /\ Len(HeadersOf(b)) < MaxHeaders /\ header(b, h)
  \/ \E b \in Builders : calls = <<>> /\ options(b, ShadowOptions)
  \/ \E b \in Builders :
       Pending(b) /\ Len(HeadersOf(b)) < MaxHeaders /\ header(b, LateSource)
  \/ \E b \in Builders : Pending(b) /\ options(b, LateOptions)
  \/ \E b \in Builders : Pending(b) /\ data(b, LatePayload)
  \/ \E b \in Builders : Pending(b) /\ SetBaseUrl(BaseLocal)
  \/ \E b \in Builders : Len(calls) < MaxRuns /\ run(b)
  \/ \E c \in Calls : \E i \in 1..Len(calls[c].slots) : Settle(c, i)
  \/ \E c \in Calls : Dispatch(c)
  \/ \E c \in Calls, r \in WindowResponses : FetchResolves(c, r)

SpecWindow == Init /\ [][NextWindow]_vars

\* C16: a terminal call with a header source that throws or rejects never
\* reaches the transport, before or after the failure, whatever its other
\* sources resolve to and whether or not the options of the builder hold a
\* headers key; once a source has failed the call is over, rejected.
C16_NoTransportWhenAHeaderSourceFails ==
  \A c \in Calls :
    /\ HasFailingSource(c) =>
         InvocationsOf(c) = {} /\ calls[c].pc \in {"headers", "done"}
    /\ FailedSources(c) # {} =>
         calls[c].pc = "done" /\ calls[c].outcome = "rejected"

\* A call whose first source resolved and whose second source rejected, on
\* a builder whose options hold a headers key: the call is rejected and the
\* transport was not invoked.
C16_Witness ==
  \E c \in Calls :
    /\ "headers" \in DOMAIN builders[calls[c].b].opts
    /\ Len(calls[c].srcs) = 2
    /\ calls[c].slots[1].st = "fulfilled"
    /\ calls[c].slots[2].st = "rejected"
    /\ calls[c].outcome = "rejected"
    /\ fetchLog = <<>>

\* C17: the URL of a terminal call is computed from the path and the base
\* URL of the state in which run() is invoked; no later step changes it,
\* a write to the base URL while the header sources are pending included,
\* and it is the URL the transport is invoked with.
C17_UrlFixedWhenRunIsInvoked ==
  [][/\ Len(calls') = Len(calls) + 1 =>
          LET c == Len(calls') IN
          calls'[c].url = ResolveUrl(builders[calls'[c].b].path, baseUrl)
     /\ \A c \in Calls : calls'[c].url = calls[c].url
     /\ Len(fetchLog') = Len(fetchLog) + 1 =>
          LET inv == fetchLog'[Len(fetchLog')] IN
          inv.url = calls[inv.call].url]_vars

\* The transport was invoked with the URL made from the empty base URL of
\* the moment of run(), although the base URL was written while an async
\* header source of the call was pending.
C17_Witness ==
  \E n \in 1..Len(fetchLog) :
    LET call == calls[fetchLog[n].call] IN
    /\ baseUrl = BaseLocal
    /\ call.order # <<>>
    /\ fetchLog[n].url = PathRel
    /\ fetchLog[n].url # ResolveUrl(builders[call.b].path, baseUrl)

\* C18: the header sources of a terminal call are those the builder holds
\* when run() is invoked, and no later step changes them; the options and
\* the body the transport is invoked with are those the builder holds when
\* run() resumes after the header resolution: every key of these options
\* is in the request with its value, and unless they hold a headers key the
\* request headers are the merge of the sources captured at run().
C18_OptionsAndDataReadAfterHeaders ==
  [][/\ Len(calls') = Len(calls) + 1 =>
          LET c == Len(calls') IN calls'[c].srcs = HeadersOf(calls'[c].b)
     /\ \A c \in Calls : calls'[c].srcs = calls[c].srcs
     /\ Len(fetchLog') = Len(fetchLog) + 1 =>
          LET inv == fetchLog'[Len(fetchLog')]
              bld == builders[calls[inv.call].b]
          IN
          /\ inv.body = bld.data
          /\ \A k \in DOMAIN bld.opts : inv.options[k] = bld.opts[k]
          /\ "headers" \notin DOMAIN bld.opts =>
               inv.options["headers"] = LastInsertedWins(calls[inv.call].srcs)]_vars

\* While the async source of a call was pending, the caller set the cache
\* option and the payload and added a header source: the transport got the
\* cache option and the payload, and not the header of the added source.
C18_Witness ==
  \E n \in 1..Len(fetchLog) :
    LET call == calls[fetchLog[n].call] IN
    /\ call.order # <<>>
    /\ fetchLog[n].body = LatePayload
    /\ "cache" \in DOMAIN fetchLog[n].options
    /\ "headers" \in DOMAIN fetchLog[n].options
    /\ LateSource \in {HeadersOf(call.b)[i] : i \in 1..Len(HeadersOf(call.b))}
    /\ "Z" \notin DOMAIN fetchLog[n].options["headers"]
    /\ "X" \in DOMAIN fetchLog[n].options["headers"]

(***************************************************************************)
(* SpecReuse: one builder, configured (and the base URL set) before its    *)
(* first terminal call and then left alone, on which terminal calls are    *)
(* made repeatedly.                                                        *)
(***************************************************************************)
ReuseSources == {AsyncFn([X |-> "3"])}

ReuseOptions == {[cache |-> "no-store"]}

ReuseData == {"d1"}

ReuseResponses == {Response("true", "200", [msg |-> "hi"], NoError)}

NextReuse ==
  \/ NoBuilder /\ GET(PathRel)
  \/ NoBuilder /\ POST(PathRel)
  \/ calls = <<>> /\ SetBaseUrl(BaseLocal)
  \/ \E b \in Builders, h \in ReuseSources :
       calls = <<>> /\ Len(HeadersOf(b)) < MaxLifeHeaders /\ header(b, h)
  \/ \E b \in Builders, o \in ReuseOptions : calls = <<>> /\ options(b, o)
  \/ \E b \in Builders, d \in ReuseData : calls = <<>> /\ data(b, d)
  \/ \E b \in Builders : Len(calls) < MaxCalls /\ run(b)
  \/ \E b \in Builders : Len(calls) < MaxCalls /\ runJSON(b)
  \/ \E c \in Calls : \E i \in 1..Len(calls[c].slots) : Settle(c, i)
  \/ \E c \in Calls : Dispatch(c)
  \/ \E c \in Calls, r \in ReuseResponses : FetchResolves(c, r)
  \/ \E c \in Calls : JsonSettles(c)

SpecReuse == Init /\ [][NextReuse]_vars

\* The arguments of one invocation of the transport.
Arguments(inv) == <<inv.url, inv.options, inv.body>>

\* C19: no step of a terminal call, from the invocation of run() or
\* runJSON() to the settling of the promise it returned, changes a field of
\* a builder or its header sources; and on a builder left alone, with the
\* base URL unchanged, every terminal call passes the same url, options and
\* body to the transport.
C19_TerminalCallLeavesBuilderUnchanged ==
  /\ [][calls' # calls =>
          \A b \in Builders :
            /\ builders'[b] = builders[b]
            /\ HeadersOf(b)' = HeadersOf(b)]_vars
  /\ [](\A i, j \in 1..Len(fetchLog) :
          calls[fetchLog[i].call].b = calls[fetchLog[j].call].b =>
            Arguments(fetchLog[i]) = Arguments(fetchLog[j]))

\* The transport was invoked for a run() and for a runJSON() on the same
\* GET builder, which holds an async header source, options and a payload,
\* after the first of the two calls had completed.
C19_Witness ==
  \E i, j \in 1..Len(fetchLog) :
    LET ci == calls[fetchLog[i].call]
        cj == calls[fetchLog[j].call]
    IN
    /\ i < j
    /\ ci.b = cj.b
    /\ ci.pc = "done" /\ ~ci.json /\ cj.json
    /\ builders[ci.b].method = "GET"
    /\ ci.order # <<>> /\ cj.order # <<>>
    /\ fetchLog[j].body = "d1"
    /\ "cache" \in DOMAIN fetchLog[j].options
    /\ fetchLog[j].url = BaseLocal \o PathRel

====
